---- MODULE Spec2Model ----
(***************************************************************************)
(* The in-memory conversation store of app/api/endpoints/chat.py and the   *)
(* four handlers working on it (send_message, get_conversation,            *)
(* delete_conversation, list_conversations), run by one asyncio event      *)
(* loop: a handler runs without interruption from one await to the next,   *)
(* and the only await of the module is the completion call of send_message.*)
(***************************************************************************)
EXTENDS Integers, Sequences, FiniteSets, TLC

\* ---------------------------------------------------------------- bounds

\* Valid send_message requests accepted over a run of Spec.
MaxSends == 2
\* Valid send_message requests accepted over a run of SpecWindow.
MaxWindowSends == 11
\* Valid send_message requests accepted over a run of SpecSequential.
MaxSequentialSends == 12
\* Valid send_message requests accepted over a run of SpecList.
MaxListSends == 13
\* Files the upload folder holds at most over a run of SpecUpload.
MaxFiles == 3
\* Calls of is_allowed over a run of SpecLimiter.
MaxCalls == 5
\* Readings of the wall clock over a run of SpecLimiter: 0..MaxLimiterTime.
MaxLimiterTime == 4
\* Readings of the wall clock: datetime.now() yields 0..MaxTime.
MaxTime == 1

\* ------------------------------------------------------ program constants

\* chat.py:65-66  len(messages) > 20 ... messages[-20:]
MaxStored == 20
\* chat.py:82     conversation["messages"][-10:]
PromptWindow == 10
\* schemas.py:22  Field(..., min_length=1, max_length=4000)
MinMessageLength == 1
MaxMessageLength == 4000
\* chat.py:175    ["content"][:100]
PreviewLength == 100
\* config.py:82  MAX_FILE_SIZE
MAX_FILE_SIZE == 5242880

\* ------------------------------------------------------------------ text

\* A text is a sequence of characters.
Whitespace == {" "}

RECURSIVE LStrip(_)
LStrip(s) ==
    IF s # <<>> /\ Head(s) \in Whitespace THEN LStrip(Tail(s)) ELSE s

RECURSIVE RStrip(_)
RStrip(s) ==
    IF s # <<>> /\ s[Len(s)] \in Whitespace
    THEN RStrip(SubSeq(s, 1, Len(s) - 1)) ELSE s

\* str.strip()
Strip(s) == RStrip(LStrip(s))

\* Python truth value of a str: the empty string is falsy.
Truthy(s) == s # <<>>

Min(a, b) == IF a <= b THEN a ELSE b

\* seq[-k:] for k > 0: the last k elements, the whole of a shorter list.
LastN(s, k) ==
    IF Len(s) <= k THEN s ELSE SubSeq(s, Len(s) - k + 1, Len(s))

\* ---------------------------------------------------------------- inputs

\* Request bodies' message texts: empty, blank, and non-blank ones.
Texts == { <<>>, <<" ">>, <<" ", " ">>, <<"h">>, <<" ", "y">> }
\* Texts the completion call returns.
Replies == { <<"o">>, <<"k">> }
\* Optional[str] = None
None == "None"
\* Conversation ids clients make up themselves.
ClientIds == { "c1" }
\* The values uuid.uuid4() yields.
UUIDs == { "u1" }
\* Request handling units: the coroutines that can be alive at the same
\* time, numbered; a new request takes the lowest unit that is free.
Tasks == { 1, 2 }
NoTask == 0
\* The null reference.
Null == 0

\* ----------------------------------------------------------------- state

VARIABLES
    conversations,  \* chat.py:17 the module-level dict: id -> dict object
    heap,           \* the conversation dict objects, by address
    task,           \* each coroutine's position and locals
    running,        \* the coroutine the event loop is running, or NoTask
    reply,          \* the HTTP response the last handler step sent, if any
    now,            \* the wall clock datetime.now() reads
    issued,         \* the uuids generate_unique_id has returned
    sent,           \* send_message requests that passed validation
    files,          \* files.py:18 the upload folder: file name -> content
    uploads,        \* each upload_file coroutine's position and locals
    response,       \* what the last upload_file or delete_file step answered
    limiter         \* helpers.py:129 a RateLimiter object, or None

vars == <<conversations, heap, task, running, reply, now, issued, sent,
          files, uploads, response, limiter>>

\* The state of the file routes.
upload_vars == <<files, uploads, response>>

IdleTask ==
    [ pc |-> "idle", message |-> <<>>, request_id |-> None,
      conversation_id |-> None, conversation |-> Null,
      openai_messages |-> <<>>, response_text |-> <<>>,
      \* history: completion calls made, and the messages appended, by this request
      calls |-> 0, appended |-> <<>> ]

NoReply == [ op |-> "none", task |-> NoTask, status |-> 0 ]

\* As SendError, the conversation id of the request given in the answer.
SendErrorWithId(t, message, status) ==
    [ op |-> "send", task |-> t, status |-> status, message |-> message,
      conversation_id |-> task[t].conversation_id ]

\* The answer to a send_message request that ends in an HTTPException
\* (message: the body it answers).
SendError(t, message, status) ==
    [ op |-> "send", task |-> t, status |-> status, message |-> message ]

\* The coroutines that can run upload_file at one time.
Uploaders == { 1, 2 }

IdleUpload ==
    [ pc |-> "idle", safe_filename |-> << >>, file_path |-> << >>,
      content |-> None, size |-> 0 ]

NoResponse == [ op |-> "none", status |-> 0 ]

\* The state the chat routes start in: chat.py:17, an empty dict.
InitChat ==
    /\ conversations = << >>
    /\ heap = << >>
    /\ task = [ t \in Tasks |-> IdleTask ]
    /\ running = NoTask
    /\ reply = NoReply
    /\ now = 0
    /\ issued = {}
    /\ sent = 0

\* The state the file routes start in: files.py:18, an empty upload folder.
InitUpload ==
    /\ files = << >>
    /\ uploads = [ t \in Uploaders |-> IdleUpload ]
    /\ response = NoResponse

\* No RateLimiter is constructed by the application itself.
Init ==
    /\ InitChat
    /\ InitUpload
    /\ limiter = None

\* ------------------------------------------------------------------ heap

\* The address a new dict object gets: the lowest one free.
NewAddress(h) ==
    CHOOSE a \in 1..(Cardinality(DOMAIN h) + 1) :
        /\ a \notin DOMAIN h
        /\ \A b \in 1..(Cardinality(DOMAIN h) + 1) : b \notin DOMAIN h => a <= b

\* Reference counting: an object lives while the store or a coroutine's
\* local `conversation` refers to it.
Referenced(store, tk) ==
    { store[k] : k \in DOMAIN store } \cup { tk[t].conversation : t \in Tasks }

Collect(h, store, tk) ==
    [ a \in (DOMAIN h) \cap Referenced(store, tk) |-> h[a] ]

\* The dict stored under id k.
Conv(k) == heap[conversations[k]]

\* ---------------------------------------------------- send_message, pure

\* schemas.py:22  ChatRequest.message: Field(..., min_length=1, max_length=4000);
\* a body that fails the schema is answered 422 before the handler runs.
SchemaAccepts(message) ==
    /\ Len(message) >= MinMessageLength
    /\ Len(message) <= MaxMessageLength

\* chat.py:38  not request.message or not request.message.strip()
MessageIsEmpty(message) ==
    ~Truthy(message) \/ ~Truthy(Strip(message))

\* Python truth value of Optional[str] conversation_id: None and "" are falsy.
IdGiven(id) == id # None /\ id # ""

\* chat.py:45  request.conversation_id or generate_unique_id()
ResolveId(request_id, fresh) ==
    IF IdGiven(request_id) THEN request_id ELSE fresh

\* As NewConversation, the history seeded with an opening system message.
NewConversationSeeded(t) ==
    LET m == [ role |-> "system", content |-> <<"s">>, timestamp |-> t, n |-> 1 ]
    IN  [ messages |-> <<m>>, created_at |-> t, updated_at |-> t, log |-> <<m>> ]

\* chat.py:48-52  the record of a new conversation (log: every message ever
\* appended to this object, a history variable the code does not keep)
NewConversation(t) ==
    [ messages |-> <<>>, created_at |-> t, updated_at |-> t, log |-> <<>> ]

\* chat.py:57-61 and 92-96  a message dict; n numbers the appends made to
\* one conversation object and stands for the identity of the dict
Message(role, content, t, n) ==
    [ role |-> role, content |-> content, timestamp |-> t, n |-> n ]

\* The message dict an append to conv creates.
NextMessage(conv, role, content, t) ==
    Message(role, content, t, Len(conv.log) + 1)

\* list.append on conversation["messages"]
Appended(conv, role, content, t) ==
    LET m == NextMessage(conv, role, content, t)
    IN  [ conv EXCEPT !.messages = Append(@, m), !.log = Append(@, m) ]

\* As Trimmed, one message too many kept (messages[-21:]).
TrimmedOffByOne(messages) ==
    IF Len(messages) > MaxStored THEN LastN(messages, MaxStored + 1) ELSE messages

\* As Trimmed, the oldest messages kept (messages[:20]).
TrimmedKeepFirst(messages) ==
    IF Len(messages) > MaxStored THEN SubSeq(messages, 1, MaxStored) ELSE messages

\* chat.py:65-66
Trimmed(messages) ==
    IF Len(messages) > MaxStored THEN LastN(messages, MaxStored) ELSE messages

\* chat.py:72-78  the content is a fixed instruction text
SystemMessage == [ role |-> "system", content |-> <<"s">> ]

\* As BuildPrompt, with the window taken from the wrong end: messages[:10].
BuildPromptFirstTen(messages) ==
    LET recent == SubSeq(messages, 1, Min(PromptWindow, Len(messages)))
    IN  <<SystemMessage>> \o
        [ i \in 1..Len(recent) |->
            [ role |-> recent[i].role, content |-> recent[i].content ] ]

\* chat.py:69-86
BuildPrompt(messages) ==
    LET recent == LastN(messages, PromptWindow)
    IN  <<SystemMessage>> \o
        [ i \in 1..Len(recent) |->
            [ role |-> recent[i].role, content |-> recent[i].content ] ]

\* --------------------------------------------------- send_message, steps

Running(t) == running = t
LoopIdle == running = NoTask

SetTask(t, fields) == [ task EXCEPT ![t] = fields ]

\* The request reaches the route: its body is parsed into a ChatRequest.
Receive(t, message, request_id) ==
    /\ LoopIdle
    /\ task[t].pc = "idle"
    /\ \A u \in Tasks : u < t => task[u].pc # "idle"
    /\ IF SchemaAccepts(message)
       THEN /\ task' = SetTask(t, [ IdleTask EXCEPT !.pc = "validate",
                                       !.message = message,
                                       !.request_id = request_id ])
            /\ running' = t
            /\ reply' = NoReply
       ELSE /\ reply' = SendError(t, message, 422)
            /\ UNCHANGED <<task, running>>
    /\ UNCHANGED <<conversations, heap, now, issued, sent>>
    /\ UNCHANGED <<upload_vars, limiter>>

\* chat.py:38-42
Validate(t) ==
    /\ Running(t)
    /\ task[t].pc = "validate"
    /\ IF MessageIsEmpty(task[t].message)
       THEN /\ reply' = SendError(t, task[t].message, 400)
            /\ task' = SetTask(t, IdleTask)
            /\ running' = NoTask
            /\ UNCHANGED sent
       ELSE /\ task' = SetTask(t, [ task[t] EXCEPT !.pc = "get_or_create" ])
            /\ sent' = sent + 1
            /\ reply' = NoReply
            /\ UNCHANGED running
    /\ UNCHANGED <<conversations, heap, now, issued>>
    /\ UNCHANGED <<upload_vars, limiter>>

\* As GetOrCreate, an id that is given and unknown answered 404.
GetOrCreateStrict(t) ==
    /\ Running(t)
    /\ task[t].pc = "get_or_create"
    /\ \E fresh \in IF IdGiven(task[t].request_id) THEN {None} ELSE UUIDs \ issued :
        LET id == ResolveId(task[t].request_id, fresh)
            a  == NewAddress(heap)
        IN  IF IdGiven(task[t].request_id) /\ id \notin DOMAIN conversations
            THEN /\ reply' = SendError(t, task[t].message, 404)
                 /\ task' = SetTask(t, IdleTask)
                 /\ running' = NoTask
                 /\ UNCHANGED <<heap, conversations, issued>>
            ELSE /\ issued' = IF IdGiven(task[t].request_id) THEN issued
                              ELSE issued \cup {fresh}
                 /\ IF id \notin DOMAIN conversations
                    THEN /\ heap' = (a :> NewConversation(now)) @@ heap
                         /\ conversations' = (id :> a) @@ conversations
                    ELSE UNCHANGED <<heap, conversations>>
                 /\ task' = SetTask(t, [ task[t] EXCEPT !.pc = "append_user",
                                           !.conversation_id = id,
                                           !.conversation = conversations'[id] ])
                 /\ reply' = NoReply
                 /\ UNCHANGED running
    /\ UNCHANGED <<now, sent>>
    /\ UNCHANGED <<upload_vars, limiter>>

\* chat.py:45-54; helpers.py:14-16 generate_unique_id, whose uuid4 is taken
\* to yield a value that no earlier call yielded.
GetOrCreate(t) ==
    /\ Running(t)
    /\ task[t].pc = "get_or_create"
    /\ \E fresh \in IF IdGiven(task[t].request_id) THEN {None} ELSE UUIDs \ issued :
        LET id == ResolveId(task[t].request_id, fresh)
            a  == NewAddress(heap)
        IN  /\ issued' = IF IdGiven(task[t].request_id) THEN issued
                         ELSE issued \cup {fresh}
            /\ IF id \notin DOMAIN conversations
               THEN /\ heap' = (a :> NewConversation(now)) @@ heap
                    /\ conversations' = (id :> a) @@ conversations
               ELSE UNCHANGED <<heap, conversations>>
            /\ task' = SetTask(t, [ task[t] EXCEPT !.pc = "append_user",
                                      !.conversation_id = id,
                                      !.conversation = conversations'[id] ])
    /\ reply' = NoReply
    /\ UNCHANGED <<running, now, sent>>
    /\ UNCHANGED <<upload_vars, limiter>>

\* chat.py:57-62
AppendUser(t) ==
    /\ Running(t)
    /\ task[t].pc = "append_user"
    /\ heap' = [ heap EXCEPT ![task[t].conversation] =
                   Appended(@, "user", task[t].message, now) ]
    /\ task' = SetTask(t, [ task[t] EXCEPT !.pc = "trim",
                 !.appended = Append(@, NextMessage(heap[task[t].conversation],
                                                    "user", task[t].message, now)) ])
    /\ reply' = NoReply
    /\ UNCHANGED <<conversations, running, now, issued, sent>>
    /\ UNCHANGED <<upload_vars, limiter>>

\* chat.py:65-66
Trim(t) ==
    /\ Running(t)
    /\ task[t].pc = "trim"
    /\ heap' = [ heap EXCEPT ![task[t].conversation].messages = Trimmed(@) ]
    /\ task' = SetTask(t, [ task[t] EXCEPT !.pc = "assemble" ])
    /\ reply' = NoReply
    /\ UNCHANGED <<conversations, running, now, issued, sent>>
    /\ UNCHANGED <<upload_vars, limiter>>

\* As Assemble, the prompt built from the history as it was before the
\* request's own user message was appended.
AssembleBeforeAppend(t) ==
    /\ Running(t)
    /\ task[t].pc = "assemble"
    /\ task' = SetTask(t, [ task[t] EXCEPT !.pc = "call",
                 !.openai_messages =
                     LET ms == heap[task[t].conversation].messages
                     IN  BuildPrompt(SubSeq(ms, 1, Len(ms) - 1)) ])
    /\ reply' = NoReply
    /\ UNCHANGED <<conversations, heap, running, now, issued, sent>>
    /\ UNCHANGED <<upload_vars, limiter>>

\* As Assemble, the prompt built in the stored list itself
\* (openai_messages = conversation["messages"]; insert(0, system_message)).
AssembleInPlace(t) ==
    /\ Running(t)
    /\ task[t].pc = "assemble"
    /\ task' = SetTask(t, [ task[t] EXCEPT !.pc = "call",
                 !.openai_messages = BuildPrompt(heap[task[t].conversation].messages) ])
    /\ heap' = [ heap EXCEPT ![task[t].conversation].messages =
                   <<[ role |-> "system", content |-> <<"s">>,
                       timestamp |-> now, n |-> 0 ]>> \o @ ]
    /\ reply' = NoReply
    /\ UNCHANGED <<conversations, running, now, issued, sent>>
    /\ UNCHANGED <<upload_vars, limiter>>

\* chat.py:69-86
Assemble(t) ==
    /\ Running(t)
    /\ task[t].pc = "assemble"
    /\ task' = SetTask(t, [ task[t] EXCEPT !.pc = "call",
                 !.openai_messages = BuildPrompt(heap[task[t].conversation].messages) ])
    /\ reply' = NoReply
    /\ UNCHANGED <<conversations, heap, running, now, issued, sent>>
    /\ UNCHANGED <<upload_vars, limiter>>

\* As CallCompletion, with a client that blocks: the answer is there when
\* the call returns and the coroutine is never suspended.
CallCompletionBlocking(t) ==
    /\ Running(t)
    /\ task[t].pc = "call"
    /\ \E text \in Replies :
          task' = SetTask(t, [ task[t] EXCEPT !.pc = "append_assistant",
                                 !.calls = @ + 1, !.response_text = text ])
    /\ reply' = NoReply
    /\ UNCHANGED <<conversations, heap, running, now, issued, sent>>
    /\ UNCHANGED <<upload_vars, limiter>>

\* chat.py:89; openai_service.py:27-37: the request is sent and the
\* coroutine is suspended until the answer arrives.
CallCompletion(t) ==
    /\ Running(t)
    /\ task[t].pc = "call"
    /\ task' = SetTask(t, [ task[t] EXCEPT !.pc = "awaiting", !.calls = @ + 1 ])
    /\ running' = NoTask
    /\ reply' = NoReply
    /\ UNCHANGED <<conversations, heap, now, issued, sent>>
    /\ UNCHANGED <<upload_vars, limiter>>

\* openai_service.py:39  the call returns the text of the first choice
CompletionReturns(t, text) ==
    /\ LoopIdle
    /\ task[t].pc = "awaiting"
    /\ task' = SetTask(t, [ task[t] EXCEPT !.pc = "append_assistant",
                              !.response_text = text ])
    /\ running' = t
    /\ reply' = NoReply
    /\ UNCHANGED <<conversations, heap, now, issued, sent>>
    /\ UNCHANGED <<upload_vars, limiter>>

\* As CompletionRaises, the user message of the failed request taken back.
CompletionRaisesRollback(t) ==
    /\ LoopIdle
    /\ task[t].pc = "awaiting"
    /\ reply' = SendError(t, task[t].message, 500)
    /\ task' = SetTask(t, IdleTask)
    /\ heap' = Collect([ heap EXCEPT ![task[t].conversation].messages =
                           SelectSeq(@, LAMBDA m : m # task[t].appended[1]) ],
                       conversations, task')
    /\ UNCHANGED <<conversations, running, now, issued, sent>>
    /\ UNCHANGED <<upload_vars, limiter>>

\* As CompletionRaises, the conversation of the failed request dropped.
CompletionRaisesDiscard(t) ==
    /\ LoopIdle
    /\ task[t].pc = "awaiting"
    /\ reply' = SendError(t, task[t].message, 500)
    /\ task' = SetTask(t, IdleTask)
    /\ conversations' = [ k \in DOMAIN conversations \ { task[t].conversation_id }
                             |-> conversations[k] ]
    /\ heap' = Collect(heap, conversations', task')
    /\ UNCHANGED <<running, now, issued, sent>>
    /\ UNCHANGED <<upload_vars, limiter>>

\* As CompletionRaises, the failed call made again.
CompletionRaisesRetry(t) ==
    /\ LoopIdle
    /\ task[t].pc = "awaiting"
    /\ task' = SetTask(t, [ task[t] EXCEPT !.pc = "call" ])
    /\ running' = t
    /\ reply' = NoReply
    /\ UNCHANGED <<conversations, heap, now, issued, sent>>
    /\ UNCHANGED <<upload_vars, limiter>>

\* openai_service.py:41-43 re-raises; chat.py:111-116 answers 500
CompletionRaises(t) ==
    /\ LoopIdle
    /\ task[t].pc = "awaiting"
    /\ reply' = SendError(t, task[t].message, 500)
    /\ task' = SetTask(t, IdleTask)
    /\ heap' = Collect(heap, conversations, task')
    /\ UNCHANGED <<conversations, running, now, issued, sent>>
    /\ UNCHANGED <<upload_vars, limiter>>

\* As AppendAssistant, the reply stored with the role of the message it
\* answers.
AppendAssistantAsUser(t) ==
    /\ Running(t)
    /\ task[t].pc = "append_assistant"
    /\ heap' = [ heap EXCEPT ![task[t].conversation] =
                   [ Appended(@, "user", task[t].response_text, now)
                       EXCEPT !.updated_at = now ] ]
    /\ task' = SetTask(t, [ task[t] EXCEPT !.pc = "respond",
                 !.appended = Append(@, NextMessage(heap[task[t].conversation],
                                        "user", task[t].response_text, now)) ])
    /\ reply' = NoReply
    /\ UNCHANGED <<conversations, running, now, issued, sent>>
    /\ UNCHANGED <<upload_vars, limiter>>

\* As AppendAssistant, the conversation stored again under its id
\* (conversations[conversation_id] = conversation).
AppendAssistantRestoring(t) ==
    /\ Running(t)
    /\ task[t].pc = "append_assistant"
    /\ heap' = [ heap EXCEPT ![task[t].conversation] =
                   [ Appended(@, "assistant", task[t].response_text, now)
                       EXCEPT !.updated_at = now ] ]
    /\ conversations' = [ k \in DOMAIN conversations \cup { task[t].conversation_id } |->
                            IF k = task[t].conversation_id
                            THEN task[t].conversation ELSE conversations[k] ]
    /\ task' = SetTask(t, [ task[t] EXCEPT !.pc = "respond",
                 !.appended = Append(@, NextMessage(heap[task[t].conversation],
                                        "assistant", task[t].response_text, now)) ])
    /\ reply' = NoReply
    /\ UNCHANGED <<running, now, issued, sent>>
    /\ UNCHANGED <<upload_vars, limiter>>

\* As AppendAssistant, the reply put right after the user message it
\* answers (list.insert) when that message is still stored.
AppendAssistantAfterOwn(t) ==
    /\ Running(t)
    /\ task[t].pc = "append_assistant"
    /\ LET conv == heap[task[t].conversation]
           m    == NextMessage(conv, "assistant", task[t].response_text, now)
           at   == { i \in 1..Len(conv.messages) : conv.messages[i] = task[t].appended[1] }
           i    == IF at = {} THEN Len(conv.messages) ELSE CHOOSE j \in at : TRUE
       IN  /\ heap' = [ heap EXCEPT ![task[t].conversation] =
                          [ conv EXCEPT !.messages = SubSeq(@, 1, i) \o << m >>
                                                        \o SubSeq(@, i + 1, Len(@)),
                                        !.log = Append(@, m),
                                        !.updated_at = now ] ]
           /\ task' = SetTask(t, [ task[t] EXCEPT !.pc = "respond",
                                     !.appended = Append(@, m) ])
    /\ reply' = NoReply
    /\ UNCHANGED <<conversations, running, now, issued, sent>>
    /\ UNCHANGED <<upload_vars, limiter>>

\* As AppendAssistant, the reply appended to every conversation there is.
AppendAssistantEverywhere(t) ==
    /\ Running(t)
    /\ task[t].pc = "append_assistant"
    /\ heap' = [ a \in DOMAIN heap |->
                   [ Appended(heap[a], "assistant", task[t].response_text, now)
                       EXCEPT !.updated_at = now ] ]
    /\ task' = SetTask(t, [ task[t] EXCEPT !.pc = "respond",
                 !.appended = Append(@, NextMessage(heap[task[t].conversation],
                                        "assistant", task[t].response_text, now)) ])
    /\ reply' = NoReply
    /\ UNCHANGED <<conversations, running, now, issued, sent>>
    /\ UNCHANGED <<upload_vars, limiter>>

\* As AppendAssistant, the request's own text stored as the reply.
AppendAssistantEcho(t) ==
    /\ Running(t)
    /\ task[t].pc = "append_assistant"
    /\ heap' = [ heap EXCEPT ![task[t].conversation] =
                   [ Appended(@, "assistant", task[t].message, now)
                       EXCEPT !.updated_at = now ] ]
    /\ task' = SetTask(t, [ task[t] EXCEPT !.pc = "respond",
                 !.appended = Append(@, NextMessage(heap[task[t].conversation],
                                        "assistant", task[t].message, now)) ])
    /\ reply' = NoReply
    /\ UNCHANGED <<conversations, running, now, issued, sent>>
    /\ UNCHANGED <<upload_vars, limiter>>

\* chat.py:92-98
AppendAssistant(t) ==
    /\ Running(t)
    /\ task[t].pc = "append_assistant"
    /\ heap' = [ heap EXCEPT ![task[t].conversation] =
                   [ Appended(@, "assistant", task[t].response_text, now)
                       EXCEPT !.updated_at = now ] ]
    /\ task' = SetTask(t, [ task[t] EXCEPT !.pc = "respond",
                 !.appended = Append(@, NextMessage(heap[task[t].conversation],
                                        "assistant", task[t].response_text, now)) ])
    /\ reply' = NoReply
    /\ UNCHANGED <<conversations, running, now, issued, sent>>
    /\ UNCHANGED <<upload_vars, limiter>>

\* chat.py:100-107
Respond(t) ==
    /\ Running(t)
    /\ task[t].pc = "respond"
    /\ reply' = [ op |-> "send", task |-> t, status |-> 200,
                  message |-> task[t].message,
                  response |-> task[t].response_text,
                  conversation_id |-> task[t].conversation_id,
                  timestamp |-> now ]
    /\ task' = SetTask(t, IdleTask)
    /\ running' = NoTask
    /\ heap' = Collect(heap, conversations, task')
    /\ UNCHANGED <<conversations, now, issued, sent>>
    /\ UNCHANGED <<upload_vars, limiter>>

\* ------------------------------------------------------ the other routes

\* As DeleteConversation, the record kept and its messages cleared
\* (conversations[conversation_id]["messages"].clear()).
DeleteConversationEmptying(id) ==
    /\ LoopIdle
    /\ IF id \in DOMAIN conversations
       THEN /\ heap' = [ heap EXCEPT ![conversations[id]].messages = << >> ]
            /\ reply' = [ op |-> "delete", task |-> NoTask, status |-> 200, id |-> id ]
       ELSE /\ reply' = [ op |-> "delete", task |-> NoTask, status |-> 404, id |-> id ]
            /\ UNCHANGED heap
    /\ UNCHANGED <<conversations, task, running, now, issued, sent>>
    /\ UNCHANGED <<upload_vars, limiter>>

\* As DeleteConversation, the whole store emptied (conversations.clear()).
DeleteConversationAll(id) ==
    /\ LoopIdle
    /\ IF id \in DOMAIN conversations
       THEN /\ conversations' = << >>
            /\ heap' = Collect(heap, conversations', task)
            /\ reply' = [ op |-> "delete", task |-> NoTask, status |-> 200, id |-> id ]
       ELSE /\ reply' = [ op |-> "delete", task |-> NoTask, status |-> 404, id |-> id ]
            /\ UNCHANGED <<conversations, heap>>
    /\ UNCHANGED <<task, running, now, issued, sent>>
    /\ UNCHANGED <<upload_vars, limiter>>

\* As DeleteConversation, deleting an unknown id answered as a success.
DeleteConversationLenient(id) ==
    /\ LoopIdle
    /\ IF id \in DOMAIN conversations
       THEN /\ conversations' = [ k \in DOMAIN conversations \ {id} |-> conversations[k] ]
            /\ heap' = Collect(heap, conversations', task)
       ELSE UNCHANGED <<conversations, heap>>
    /\ reply' = [ op |-> "delete", task |-> NoTask, status |-> 200, id |-> id ]
    /\ UNCHANGED <<task, running, now, issued, sent>>
    /\ UNCHANGED <<upload_vars, limiter>>

\* chat.py:143-158
DeleteConversation(id) ==
    /\ LoopIdle
    /\ IF id \in DOMAIN conversations
       THEN /\ conversations' = [ k \in DOMAIN conversations \ {id} |-> conversations[k] ]
            /\ heap' = Collect(heap, conversations', task)
            /\ reply' = [ op |-> "delete", task |-> NoTask, status |-> 200, id |-> id ]
       ELSE /\ reply' = [ op |-> "delete", task |-> NoTask, status |-> 404, id |-> id ]
            /\ UNCHANGED <<conversations, heap>>
    /\ UNCHANGED <<task, running, now, issued, sent>>
    /\ UNCHANGED <<upload_vars, limiter>>

\* chat.py:129-141  the body of a found conversation
ConversationBody(id, conv) ==
    [ conversation_id |-> id,
      messages |-> conv.messages,
      created_at |-> conv.created_at,
      updated_at |-> conv.updated_at,
      message_count |-> Len(conv.messages) ]

\* As GetConversation, under a lock that a request in flight holds.
GetConversationLocked(id) ==
    /\ LoopIdle
    /\ \A t \in Tasks : task[t].pc = "idle"
    /\ IF id \in DOMAIN conversations
       THEN reply' = [ op |-> "get", task |-> NoTask, status |-> 200, id |-> id,
                       body |-> ConversationBody(id, Conv(id)) ]
       ELSE reply' = [ op |-> "get", task |-> NoTask, status |-> 404, id |-> id ]
    /\ UNCHANGED <<conversations, heap, task, running, now, issued, sent>>
    /\ UNCHANGED <<upload_vars, limiter>>

\* As GetConversation, an id the store does not hold looked up the way
\* send_message does it: the record is created.
GetConversationCreating(id) ==
    /\ LoopIdle
    /\ IF id \in DOMAIN conversations
       THEN /\ reply' = [ op |-> "get", task |-> NoTask, status |-> 200, id |-> id,
                          body |-> ConversationBody(id, Conv(id)) ]
            /\ UNCHANGED <<conversations, heap>>
       ELSE /\ heap' = (NewAddress(heap) :> NewConversation(now)) @@ heap
            /\ conversations' = (id :> NewAddress(heap)) @@ conversations
            /\ reply' = [ op |-> "get", task |-> NoTask, status |-> 404, id |-> id ]
    /\ UNCHANGED <<task, running, now, issued, sent>>
    /\ UNCHANGED <<upload_vars, limiter>>

\* chat.py:118-141
GetConversation(id) ==
    /\ LoopIdle
    /\ IF id \in DOMAIN conversations
       THEN reply' = [ op |-> "get", task |-> NoTask, status |-> 200, id |-> id,
                       body |-> ConversationBody(id, Conv(id)) ]
       ELSE reply' = [ op |-> "get", task |-> NoTask, status |-> 404, id |-> id ]
    /\ UNCHANGED <<conversations, heap, task, running, now, issued, sent>>
    /\ UNCHANGED <<upload_vars, limiter>>

\* The text "..."
Ellipsis == << ".", ".", "." >>

\* As Preview, with the cut left out.
PreviewUncut(messages) ==
    IF messages # <<>>
    THEN messages[Len(messages)].content \o Ellipsis
    ELSE <<>>

\* chat.py:175  messages[-1]["content"][:100] + "..." if messages else ""
Preview(messages) ==
    IF messages # <<>>
    THEN LET content == messages[Len(messages)].content
         IN  SubSeq(content, 1, Min(PreviewLength, Len(content))) \o Ellipsis
    ELSE <<>>

\* chat.py:170-176  one entry of the result
Summary(id, conv) ==
    [ conversation_id |-> id,
      created_at |-> conv.created_at,
      updated_at |-> conv.updated_at,
      message_count |-> Len(conv.messages),
      last_message |-> Preview(conv.messages) ]

\* chat.py:160-181  (the entries as a set: the order of the result, that of
\* the dict's insertion, is not kept)
ListConversations ==
    /\ LoopIdle
    /\ reply' = [ op |-> "list", task |-> NoTask, status |-> 200,
                  conversations |-> { Summary(k, Conv(k)) : k \in DOMAIN conversations },
                  total_count |-> Cardinality(DOMAIN conversations) ]
    /\ UNCHANGED <<conversations, heap, task, running, now, issued, sent>>
    /\ UNCHANGED <<upload_vars, limiter>>

\* The steps of send_message that read datetime.now().
ReadsClock(pc) == pc \in { "get_or_create", "append_user", "append_assistant", "respond" }

\* The wall clock moves on. Time passes at any moment; a reading is all
\* the program sees of it, so the clock is advanced only where the step
\* about to run reads it.
Tick ==
    /\ \E t \in Tasks : Running(t) /\ ReadsClock(task[t].pc)
    /\ now' = now + 1
    /\ reply' = NoReply
    /\ UNCHANGED <<conversations, heap, task, running, issued, sent>>
    /\ UNCHANGED <<upload_vars, limiter>>

\* ---------------------------------------------------------- specifications

\* The ids a client can name: its own, and the uuids it has been given.
KnownIds == ClientIds \cup issued
\* What a client sends as conversation_id: nothing, or an id it can name.
NamedIds == KnownIds \cup { None }

Step(t) ==
    \/ Validate(t)
    \/ GetOrCreate(t)
    \/ AppendUser(t)
    \/ Trim(t)
    \/ Assemble(t)
    \/ CallCompletion(t)
    \/ AppendAssistant(t)
    \/ Respond(t)

Next ==
    \/ \E t \in Tasks, m \in Texts, id \in NamedIds :
          sent < MaxSends /\ Receive(t, m, id)
    \/ \E t \in Tasks : Step(t)
    \/ \E t \in Tasks, text \in Replies : CompletionReturns(t, text)
    \/ \E t \in Tasks : CompletionRaises(t)
    \/ \E id \in KnownIds : DeleteConversation(id)
    \/ now < MaxTime /\ Tick

Spec == Init /\ [][Next]_vars

\* Long runs on one conversation, so that the stored history reaches and
\* passes MaxStored and the prompt window: one text, one answer, the
\* clock standing still.
WindowText == <<" ", "y">>
WindowReply == <<"o">>

NextWindow ==
    \/ \E t \in Tasks :
          sent < MaxWindowSends /\ Receive(t, WindowText, "c1")
    \/ \E t \in Tasks : Step(t)
    \/ \E t \in Tasks : CompletionReturns(t, WindowReply)
    \/ \E t \in Tasks : CompletionRaises(t)

SpecWindow == Init /\ [][NextWindow]_vars

\* All four routes together, with one answer text: requests that read the
\* store or delete from it, between the steps of requests that write to it.
ReadTexts == { <<"h">>, <<" ", "y">> }

NextRead ==
    \/ \E t \in Tasks, m \in ReadTexts, id \in NamedIds :
          sent < MaxSends /\ Receive(t, m, id)
    \/ \E t \in Tasks : Step(t)
    \/ \E t \in Tasks : CompletionReturns(t, WindowReply)
    \/ \E t \in Tasks : CompletionRaises(t)
    \/ \E id \in KnownIds : DeleteConversation(id)
    \/ \E id \in KnownIds : GetConversation(id)
    \/ ListConversations
    \/ now < MaxTime /\ Tick

SpecRead == Init /\ [][NextRead]_vars

\* Requests one after the other on one conversation, answered with a short
\* text or with one longer than the preview, with listings and deletions
\* of the conversation in between.
LongText == [ i \in 1..(PreviewLength + 1) |-> IF i <= PreviewLength THEN "x" ELSE "z" ]
ListReplies == { WindowReply, LongText }

NextList ==
    \/ sent < MaxListSends /\ Receive(1, WindowText, "c1")
    \/ Step(1)
    \/ \E text \in ListReplies : CompletionReturns(1, text)
    \/ ListConversations
    \/ DeleteConversation("c1")

SpecList == Init /\ [][NextList]_vars

\* Requests on one conversation one at a time (the next one is sent when
\* the one before has been answered), each completion call returning or
\* failing.
NextSequential ==
    \/ sent < MaxSequentialSends /\ Receive(1, WindowText, "c1")
    \/ Step(1)
    \/ CompletionReturns(1, WindowReply)
    \/ CompletionRaises(1)

SpecSequential == Init /\ [][NextSequential]_vars

\* ------------------------------------------------------------ file routes

\* helpers.py:80
DangerousChars == { "/", "\\", ":", "*", "?", "\"", "<", ">", "|" }

\* helpers.py:77-89 sanitize_filename. The names of this model are shorter
\* than 255 characters, so the cut of lines 85-87 does not apply to them.
sanitize_filename(filename) ==
    [ i \in 1..Len(filename) |->
        IF filename[i] \in DangerousChars THEN "_" ELSE filename[i] ]

\* pathlib: the place of the dot that starts the suffix of a name, 0 when
\* the name has no suffix (no dot, or the last dot is first or last).
SuffixDot(name) ==
    LET dots == { i \in 1..Len(name) : name[i] = "." }
        last == IF dots = {} THEN 0
                ELSE CHOOSE i \in dots : \A j \in dots : j <= i
    IN  IF 1 < last /\ last < Len(name) THEN last ELSE 0

\* Path.suffix and Path.stem
Suffix(name) ==
    IF SuffixDot(name) = 0 THEN << >> ELSE SubSeq(name, SuffixDot(name), Len(name))
Stem(name) ==
    IF SuffixDot(name) = 0 THEN name ELSE SubSeq(name, 1, SuffixDot(name) - 1)

\* str(counter)
DecimalDigits == << "0", "1", "2", "3", "4", "5", "6", "7", "8", "9" >>
RECURSIVE Str(_)
Str(n) ==
    IF n < 10 THEN << DecimalDigits[n + 1] >>
    ELSE Str(n \div 10) \o << DecimalDigits[(n % 10) + 1] >>

\* files.py:53-58  the loop that looks for a name no file of folder has
RECURSIVE FreeName(_, _, _, _)
FreeName(safe_filename, original_stem, counter, folder) ==
    IF safe_filename \in DOMAIN folder
    THEN FreeName(original_stem \o << "_" >> \o Str(counter) \o Suffix(safe_filename),
                  original_stem, counter + 1, folder)
    ELSE safe_filename

\* What a client uploads: a file name (possibly none), a size (one that is
\* accepted and too large to be held in memory, where file.read() is a wait
\* for a thread; one that is refused), a content.
Filenames == { << >>, << "a" >>, << "a", "/", "1" >>, << "a", ".", "t" >> }
FileSizes == { MAX_FILE_SIZE \div 2, MAX_FILE_SIZE + 1 }
Contents == { "x", "y" }

\* files.py:23-61  upload_file up to its await: the checks, and the choice
\* of a path that does not exist at this moment.
UploadFile(t, filename, size, content) ==
    /\ uploads[t].pc = "idle"
    /\ \A u \in Uploaders : u < t => uploads[u].pc # "idle"
    /\ IF filename = << >> \/ size > MAX_FILE_SIZE
       THEN /\ response' = [ op |-> "upload", status |-> 400 ]
            /\ UNCHANGED uploads
       ELSE /\ uploads' = [ uploads EXCEPT ![t] =
                   [ pc |-> "reading",
                     safe_filename |-> FreeName(sanitize_filename(filename),
                                                Stem(sanitize_filename(filename)), 1, files),
                     file_path |-> FreeName(sanitize_filename(filename),
                                            Stem(sanitize_filename(filename)), 1, files),
                     content |-> content, size |-> size ] ]
            /\ response' = NoResponse
    /\ UNCHANGED <<files, limiter, conversations, heap, task, running, reply, now, issued, sent>>

\* files.py:61-72  file.read() has returned: the file is opened for writing
\* (created, or emptied if it exists), written, and the request answered.
WriteFile(t) ==
    /\ uploads[t].pc = "reading"
    /\ files' = [ f \in DOMAIN files \cup { uploads[t].file_path } |->
                    IF f = uploads[t].file_path THEN uploads[t].content
                    ELSE files[f] ]
    /\ response' = [ op |-> "upload", status |-> 200,
                     filename |-> uploads[t].safe_filename,
                     file_size |-> uploads[t].size ]
    /\ uploads' = [ uploads EXCEPT ![t] = IdleUpload ]
    /\ UNCHANGED <<limiter, conversations, heap, task, running, reply, now, issued, sent>>

\* files.py:76-81  file.read() or the write has raised
UploadFails(t) ==
    /\ uploads[t].pc = "reading"
    /\ response' = [ op |-> "upload", status |-> 500 ]
    /\ uploads' = [ uploads EXCEPT ![t] = IdleUpload ]
    /\ UNCHANGED <<files, limiter, conversations, heap, task, running, reply, now, issued, sent>>

\* files.py:146-186 delete_file
DeleteFile(filename) ==
    /\ IF sanitize_filename(filename) \in DOMAIN files
       THEN /\ files' = [ f \in DOMAIN files \ { sanitize_filename(filename) } |-> files[f] ]
            /\ response' = [ op |-> "delete_file", status |-> 200 ]
       ELSE /\ response' = [ op |-> "delete_file", status |-> 404 ]
            /\ UNCHANGED files
    /\ UNCHANGED <<uploads, limiter, conversations, heap, task, running, reply, now, issued, sent>>

\* Uploads and deletions of files, any number of them at a time.
NextUpload ==
    \/ \E t \in Uploaders, filename \in Filenames, size \in FileSizes, content \in Contents :
          Cardinality(DOMAIN files) < MaxFiles /\ UploadFile(t, filename, size, content)
    \/ \E t \in Uploaders : WriteFile(t)
    \/ \E t \in Uploaders : UploadFails(t)
    \/ \E filename \in Filenames \ { << >> } : DeleteFile(filename)

SpecUpload == Init /\ [][NextUpload]_vars

\* ------------------------------------------------------------ rate limiter

\* helpers.py:132-135 RateLimiter.__init__; admitted and calls are history:
\* the times of all the calls admitted so far, and the number of calls.
RateLimiter(max_requests, time_window) ==
    [ max_requests |-> max_requests, time_window |-> time_window,
      requests |-> << >>, result |-> None, admitted |-> << >>, calls |-> 0 ]

\* The request times that are within the window at time t
\* ((now - req).total_seconds() <= self.time_window).
InWindow(requests, t, time_window) ==
    SelectSeq(requests, LAMBDA req : t - req <= time_window)

\* As IsAllowed, the limit compared with <= : one call too many admitted.
IsAllowedInclusive ==
    /\ LET kept == InWindow(limiter.requests, now, limiter.time_window)
       IN  IF Len(kept) <= limiter.max_requests
           THEN limiter' = [ limiter EXCEPT !.requests = Append(kept, now),
                                            !.result = TRUE,
                                            !.admitted = Append(@, now),
                                            !.calls = @ + 1 ]
           ELSE limiter' = [ limiter EXCEPT !.requests = kept,
                                            !.result = FALSE,
                                            !.calls = @ + 1 ]
    /\ UNCHANGED <<upload_vars, conversations, heap, task, running, reply, now, issued, sent>>

\* helpers.py:137-149 RateLimiter.is_allowed
IsAllowed ==
    /\ LET kept == InWindow(limiter.requests, now, limiter.time_window)
       IN  IF Len(kept) < limiter.max_requests
           THEN limiter' = [ limiter EXCEPT !.requests = Append(kept, now),
                                            !.result = TRUE,
                                            !.admitted = Append(@, now),
                                            !.calls = @ + 1 ]
           ELSE limiter' = [ limiter EXCEPT !.requests = kept,
                                            !.result = FALSE,
                                            !.calls = @ + 1 ]
    /\ UNCHANGED <<upload_vars, conversations, heap, task, running, reply, now, issued, sent>>

\* Time passes between two calls of is_allowed.
TimePasses ==
    /\ now' = now + 1
    /\ UNCHANGED <<limiter, upload_vars, conversations, heap, task, running, reply, issued, sent>>

\* The limits a RateLimiter is constructed with.
MaxRequestsValues == { 1, 2 }
TimeWindows == { 1, 2 }

InitLimiter ==
    /\ InitChat
    /\ InitUpload
    /\ \E max_requests \in MaxRequestsValues, time_window \in TimeWindows :
          limiter = RateLimiter(max_requests, time_window)

NextLimiter ==
    \/ limiter.calls < MaxCalls /\ IsAllowed
    \/ now < MaxLimiterTime /\ TimePasses

SpecLimiter == InitLimiter /\ [][NextLimiter]_vars

\* ------------------------------------------------------------------ claims

\* No request is between its user-message append and the trim that follows.
NoTrimPending == \A t \in Tasks : task[t].pc # "trim"

\* C1: whenever no trim is pending (that is, after every append of
\* send_message, the trim that follows the user append included), every
\* conversation in the store holds at most 20 messages.
C1_StoredAtMostCap ==
    NoTrimPending =>
        \A k \in DOMAIN conversations : Len(Conv(k).messages) <= MaxStored

\* C2: after each append (and its trim) the stored sequence is the last
\* min(20, total appended) messages appended, in append order.
C2_StoredIsLatestAppended ==
    NoTrimPending =>
        \A a \in DOMAIN heap :
            /\ Len(heap[a].messages) = Min(MaxStored, Len(heap[a].log))
            /\ heap[a].messages = LastN(heap[a].log, Len(heap[a].messages))

\* C3: the prompt handed to the completion call for a conversation holding n
\* messages has 1 + min(10, n) entries: a system entry, then the role and
\* content of the last min(10, n) stored messages, oldest first.
C3_PromptShape ==
    \A t \in Tasks :
        task[t].pc = "call" =>
            LET stored == heap[task[t].conversation].messages
                n      == Len(stored)
                k      == Min(PromptWindow, n)
                prompt == task[t].openai_messages
            IN  /\ Len(prompt) = 1 + k
                /\ prompt[1].role = "system"
                /\ \A i \in 1..k :
                      /\ prompt[1 + i].role = stored[n - k + i].role
                      /\ prompt[1 + i].content = stored[n - k + i].content
                      /\ DOMAIN prompt[1 + i] = { "role", "content" }

\* C3 witness: a prompt of 11 entries built over a history of 15 messages.
C3_Witness ==
    \E t \in Tasks :
        /\ task[t].pc = "call"
        /\ Len(heap[task[t].conversation].messages) = 15
        /\ Len(task[t].openai_messages) = 1 + PromptWindow

\* A task takes the step that resolves a given id the store does not hold.
ResolvesUnknownId(t) ==
    /\ task[t].pc = "get_or_create"
    /\ task'[t].pc # "get_or_create"
    /\ IdGiven(task[t].request_id)
    /\ task[t].request_id \notin DOMAIN conversations

\* Every record of the store before the step is the same after it.
RecordsKept ==
    \A k \in DOMAIN conversations :
        /\ k \in DOMAIN conversations'
        /\ conversations'[k] = conversations[k]
        /\ heap'[conversations[k]] = heap[conversations[k]]

\* The store maps the same ids to the same records (an object that is no
\* longer in the store, and is freed, is no part of it).
StoreUnchanged == conversations' = conversations /\ RecordsKept

\* C4: the prompt-assembly step of send_message changes nothing in the
\* store: the conversation's messages, created_at and updated_at are as
\* before, and so is every other conversation.
C4_AssemblyReadsOnly ==
    [][ \A t \in Tasks :
          (task[t].pc = "assemble" /\ task'[t].pc = "call") =>
              LET a == task[t].conversation
              IN  /\ heap'[a].messages = heap[a].messages
                  /\ heap'[a].created_at = heap[a].created_at
                  /\ heap'[a].updated_at = heap[a].updated_at
                  /\ conversations' = conversations
                  /\ RecordsKept ]_vars

\* C4 witness: a prompt has just been assembled over a stored history while
\* the store holds another conversation too.
C4_Witness ==
    \E t \in Tasks :
        /\ task[t].pc = "call"
        /\ Len(task[t].openai_messages) >= 2
        /\ Cardinality(DOMAIN conversations) = 2

\* C5: when the completion call of a request fails, the request is answered
\* 500, it has appended its user message and no assistant message, and the
\* failure changes nothing in the store (the user message is not taken back).
C5_FailureKeepsUserMessage ==
    [][ \A t \in Tasks :
          (task[t].pc = "awaiting" /\ task'[t].pc = "idle") =>
              /\ reply' = SendError(t, task[t].message, 500)
              /\ Len(task[t].appended) = 1
              /\ task[t].appended[1].role = "user"
              /\ task[t].appended[1].content = task[t].message
              /\ StoreUnchanged ]_vars

\* C5 witness: a request has just been answered 500 and the stored history
\* ends with its user message.
C5_Witness ==
    /\ reply.op = "send"
    /\ reply.status = 500
    /\ \E k \in DOMAIN conversations :
          LET ms == Conv(k).messages
          IN  /\ ms # <<>>
              /\ ms[Len(ms)].role = "user"
              /\ ms[Len(ms)].content = reply.message

\* C6: a send_message request whose message is empty or all whitespace is
\* answered 400, with the store unchanged and no completion call made.
C6_BlankMessageIs400 ==
    [][ (reply'.op = "send" /\ Strip(reply'.message) = <<>>) =>
            /\ reply'.status = 400
            /\ StoreUnchanged
            /\ task[reply'.task].calls = 0 ]_vars

\* C7 as claimed: a given id that the store does not hold makes send_message
\* fail with 404 and leave the store unchanged.
C7_UnknownIdIs404 ==
    [][ \A t \in Tasks :
          ResolvesUnknownId(t) =>
              /\ reply'.op = "send"
              /\ reply'.status = 404
              /\ StoreUnchanged ]_vars

\* C7 amended: a given id that the store does not hold does not make
\* send_message fail: no send_message request is ever answered 404, and the
\* step adds a record under that id and keeps every record there was.
C7_UnknownIdIsCreated ==
    [][ /\ reply'.op = "send" => reply'.status # 404
        /\ \A t \in Tasks :
              ResolvesUnknownId(t) =>
                  /\ reply' = NoReply
                  /\ DOMAIN conversations' =
                        DOMAIN conversations \cup { task[t].request_id }
                  /\ RecordsKept ]_vars

\* C7 witness: a request has just had its unknown id resolved while the
\* store held another conversation.
C7_Witness ==
    \E t \in Tasks :
        /\ task[t].pc = "append_user"
        /\ IdGiven(task[t].request_id)
        /\ heap[task[t].conversation].log = <<>>
        /\ Cardinality(DOMAIN conversations) = 2

\* C8: for a given id that the store does not hold, send_message creates a
\* new record with no messages under exactly that id and goes on with it as
\* for a new conversation.
C8_UnknownIdGetsEmptyRecord ==
    [][ \A t \in Tasks :
          ResolvesUnknownId(t) =>
              LET id == task[t].request_id
              IN  /\ DOMAIN conversations' \ DOMAIN conversations = { id }
                  /\ conversations'[id] \notin DOMAIN heap
                  /\ heap'[conversations'[id]].messages = <<>>
                  /\ heap'[conversations'[id]].created_at = now
                  /\ heap'[conversations'[id]].updated_at = now
                  /\ task'[t].pc = "append_user"
                  /\ task'[t].conversation_id = id
                  /\ task'[t].conversation = conversations'[id] ]_vars

\* C8 witness: the record a request is about to append to was created
\* under the id the request gave, and is empty.
C8_Witness ==
    \E t \in Tasks :
        /\ task[t].pc = "append_user"
        /\ task[t].request_id = "c1"
        /\ task[t].conversation_id = "c1"
        /\ Conv("c1").messages = <<>>
        /\ Conv("c1").created_at = now

\* C10 as claimed: deleting an id the store does not hold returns normally
\* (no error is raised) and leaves the store unchanged.
C10_DeleteUnknownReturns ==
    [][ (reply'.op = "delete" /\ reply'.id \notin DOMAIN conversations) =>
            /\ reply'.status = 200
            /\ StoreUnchanged ]_vars

\* C10 amended: deleting an id the store does not hold is answered 404
\* (NotFound is raised) and leaves the store unchanged.
C10_DeleteUnknownIs404 ==
    [][ (reply'.op = "delete" /\ reply'.id \notin DOMAIN conversations) =>
            /\ reply'.status = 404
            /\ StoreUnchanged
            /\ task' = task ]_vars

\* C10 witness: a delete has just been answered 404 while the store holds a
\* conversation under another id.
C10_Witness ==
    /\ reply.op = "delete"
    /\ reply.status = 404
    /\ reply.id \notin DOMAIN conversations
    /\ DOMAIN conversations # {}

\* The store without the record of id, the rest as it was.
RemovedOnly(id) ==
    /\ DOMAIN conversations' = DOMAIN conversations \ { id }
    /\ \A k \in DOMAIN conversations' :
          /\ conversations'[k] = conversations[k]
          /\ heap'[conversations'[k]] = heap[conversations[k]]

\* C11: deleting an id the store holds removes that record and no other and
\* changes no other conversation; from then on the id is not in the store,
\* and a get of it is answered 404, until a send_message request naming
\* that id creates it again.
C11_DeleteRemovesUntilRenamed ==
    [][ /\ (reply'.op = "delete" /\ reply'.id \in DOMAIN conversations) =>
              /\ reply'.status = 200
              /\ RemovedOnly(reply'.id)
        /\ \A k \in DOMAIN conversations' \ DOMAIN conversations :
              \E t \in Tasks :
                  /\ task[t].pc = "get_or_create"
                  /\ task'[t].pc = "append_user"
                  /\ task'[t].conversation_id = k
                  /\ IdGiven(task[t].request_id) => task[t].request_id = k
        /\ (reply'.op = "get" /\ reply'.id \notin DOMAIN conversations) =>
              reply'.status = 404 ]_vars

\* C11 witness: a get of a deleted id has just been answered 404, while a
\* request that began on the deleted record is still waiting and another
\* conversation is in the store.
C11_Witness ==
    /\ reply.op = "get"
    /\ reply.status = 404
    /\ DOMAIN conversations # {}
    /\ \E t \in Tasks :
          /\ task[t].pc = "awaiting"
          /\ task[t].conversation_id = reply.id

\* C12: a get of an id the store does not hold is answered 404; a get of an
\* id it holds returns the stored messages, all of them, and their number
\* as message_count; neither changes anything.
C12_GetReadsOnly ==
    [][ reply'.op = "get" =>
          /\ StoreUnchanged
          /\ heap' = heap
          /\ task' = task
          /\ IF reply'.id \in DOMAIN conversations
             THEN /\ reply'.status = 200
                  /\ reply'.body.conversation_id = reply'.id
                  /\ reply'.body.messages = Conv(reply'.id).messages
                  /\ reply'.body.message_count = Len(Conv(reply'.id).messages)
             ELSE reply'.status = 404 ]_vars

\* C12 witness: a get has just returned a history of three messages.
C12_Witness ==
    /\ reply.op = "get"
    /\ reply.status = 200
    /\ reply.body.message_count = 3
    /\ Len(reply.body.messages) = 3

\* The first k characters of a text (text[:k]).
FirstChars(text, k) == SubSeq(text, 1, Min(k, Len(text)))

\* C13: list_conversations gives, for every conversation in the store, the
\* number of stored messages and as preview the first 100 characters of
\* the last stored message's content (the empty text when there is none);
\* after 25 appends the number shown is 20.
C13_SummaryPreviewIsFirst100 ==
    reply.op = "list" =>
        \A k \in DOMAIN conversations :
            \E e \in reply.conversations :
                LET ms == Conv(k).messages
                IN  /\ e.conversation_id = k
                    /\ e.message_count = Len(ms)
                    /\ e.last_message =
                          IF ms = <<>> THEN <<>>
                          ELSE FirstChars(ms[Len(ms)].content, PreviewLength)
                    /\ Len(Conv(k).log) = 25 => e.message_count = MaxStored

\* The roles of a history, in order.
Roles(messages) == [ i \in 1..Len(messages) |-> messages[i].role ]

\* C14: requests on one conversation interleave at the completion call and
\* nowhere else: the step that makes the call suspends the request and
\* frees the loop, the loop is taken only by a request that begins or one
\* that resumes from its call, and up to its call a request's user message
\* is the newest of its conversation. (The out-of-order history this leads
\* to, user1, user2, assistant2, assistant1, is the witness.)
C14_InterleaveAtAwait ==
    [][ \A t \in Tasks :
          /\ (task[t].pc = "call" /\ task'[t] # task[t]) =>
                /\ task'[t].pc = "awaiting"
                /\ running' = NoTask
          /\ (running' = t /\ running # t) =>
                /\ running = NoTask
                /\ task[t].pc \in { "idle", "awaiting" }
          /\ task[t].pc \in { "trim", "assemble", "call" } =>
                task[t].appended[1].n = Len(heap[task[t].conversation].log) ]_vars

\* C14 witness: the stored history of a conversation is user1, user2,
\* assistant2, assistant1: the request that has just appended the last
\* message appended the first one too.
C14_Witness ==
    \E k \in DOMAIN conversations, t \in Tasks :
        /\ Roles(Conv(k).messages) = << "user", "user", "assistant", "assistant" >>
        /\ task[t].pc = "respond"
        /\ task[t].conversation = conversations[k]
        /\ task[t].appended = << Conv(k).messages[1], Conv(k).messages[4] >>

\* C15: a send_message request changes no conversation but its own: a step
\* that changes a conversation object is a step of the running request, on
\* the object that request holds, whose id is the one the request named;
\* every message a conversation ever got was sent to that conversation.
C15_OtherConversationsUntouched ==
    [][ /\ \A a \in DOMAIN heap \cap DOMAIN heap' :
              heap'[a] # heap[a] =>
                  \E t \in Tasks :
                      /\ Running(t)
                      /\ task[t].conversation = a
                      /\ IdGiven(task[t].request_id) =>
                            task[t].request_id = task[t].conversation_id
                      /\ \A k \in DOMAIN conversations :
                            k # task[t].conversation_id =>
                                /\ conversations[k] # a
                                /\ k \in DOMAIN conversations'
                                /\ conversations'[k] = conversations[k]
                      /\ \A i \in (Len(heap[a].log) + 1)..Len(heap'[a].log) :
                            heap'[a].log[i] = task'[t].appended[Len(task'[t].appended)]
        /\ \A t \in Tasks, k \in DOMAIN conversations' :
              conversations'[k] = task'[t].conversation =>
                  k = task'[t].conversation_id ]_vars

\* C15 witness: two requests on different conversations are in flight; one
\* has just appended its reply, and the other's conversation holds the
\* other's user message and nothing else.
C15_Witness ==
    \E t, u \in Tasks :
        /\ task[t].pc = "respond"
        /\ task[u].pc = "awaiting"
        /\ task[t].conversation_id # task[u].conversation_id
        /\ Len(heap[task[t].conversation].messages) = 2
        /\ heap[task[u].conversation].messages = task[u].appended

\* C16: in every state the updated_at of a conversation is not earlier than
\* the timestamp of its last stored message.
C16_UpdatedAtCoversLastMessage ==
    \A k \in DOMAIN conversations :
        LET ms == Conv(k).messages
        IN  ms # <<>> => Conv(k).updated_at >= ms[Len(ms)].timestamp

\* C17: within a request the user message is appended before the completion
\* call is made and the assistant message only after that call has
\* returned; the assistant message holds the text the call returned, and
\* the answer to the caller holds the same text.
C17_StepsOrdered ==
    [][ \A t \in Tasks :
          /\ task'[t].calls > task[t].calls =>
                /\ Len(task[t].appended) = 1
                /\ task[t].appended[1].role = "user"
                /\ task[t].appended[1].content = task[t].message
          /\ Len(task'[t].appended) > Len(task[t].appended) =>
                LET m == task'[t].appended[Len(task'[t].appended)]
                IN  /\ heap'[task[t].conversation].log[m.n] = m
                    /\ IF Len(task[t].appended) = 0
                       THEN /\ m.role = "user"
                            /\ task[t].calls = 0
                       ELSE /\ m.role = "assistant"
                            /\ Len(task[t].appended) = 1
                            /\ task[t].calls = 1
                            /\ task[t].pc = "append_assistant"
                            /\ m.content = task[t].response_text
          /\ (task[t].pc = "awaiting" /\ task'[t].pc = "append_assistant") =>
                \E text \in Replies : task'[t].response_text = text
          /\ (reply'.op = "send" /\ reply'.status = 200 /\ reply'.task = t) =>
                /\ Len(task[t].appended) = 2
                /\ reply'.response = task[t].appended[2].content
                /\ reply'.response = task[t].response_text
                /\ reply'.message = task[t].appended[1].content ]_vars

\* C17 witness: a request has just been answered with the text "k", which
\* is the assistant message that follows its user message in the history.
C17_Witness ==
    /\ reply.op = "send"
    /\ reply.status = 200
    /\ reply.response = << "k" >>
    /\ \E k \in DOMAIN conversations :
          /\ k = reply.conversation_id
          /\ Roles(Conv(k).messages) = << "user", "assistant" >>
          /\ Conv(k).messages[1].content = reply.message
          /\ Conv(k).messages[2].content = reply.response

C18_MessagesImmutable ==
    [][ /\ \A a \in DOMAIN heap \cap DOMAIN heap' :
              LET old == heap[a].messages
                  new == heap'[a].messages
              IN  /\ \E d \in 0..Len(old) :
                        /\ Len(new) >= Len(old) - d
                        /\ \A i \in (d + 1)..Len(old) : new[i - d] = old[i]
                        /\ \A j \in (Len(old) - d + 1)..Len(new) :
                              new[j].n > Len(heap[a].log)
                        /\ d > 0 =>
                              \E t \in Tasks :
                                  /\ Running(t)
                                  /\ task[t].pc = "trim"
                                  /\ task[t].conversation = a
                  /\ \A j \in 1..Len(new) : new[j] = heap'[a].log[new[j].n]
                  /\ SubSeq(heap'[a].log, 1, Len(heap[a].log)) = heap[a].log
        /\ \A k \in DOMAIN conversations :
              (k \notin DOMAIN conversations' \/ conversations'[k] # conversations[k]) =>
                  /\ reply'.op = "delete"
                  /\ reply'.status = 200
                  /\ reply'.id = k
                  /\ k \notin DOMAIN conversations' ]_vars

\* C18 witness: the trim has just evicted the oldest message of a history;
\* the twenty that stay are the ones appended second to twenty-first.
C18_Witness ==
    \E k \in DOMAIN conversations, t \in Tasks :
        /\ task[t].pc = "assemble"
        /\ task[t].conversation = conversations[k]
        /\ Len(Conv(k).log) = MaxStored + 1
        /\ Conv(k).messages = SubSeq(Conv(k).log, 2, MaxStored + 1)

\* C20: while a request waits for its completion call and no other request
\* is in the middle of a step, a get, a delete and a list can be served
\* and a new send_message request can be taken up, whatever id they name.
C20_NothingBlockedWhileWaiting ==
    \A t \in Tasks :
        ( /\ task[t].pc = "awaiting"
          /\ \A u \in Tasks \ { t } : task[u].pc \in { "idle", "awaiting" } ) =>
            /\ \A id \in KnownIds :
                  /\ ENABLED GetConversation(id)
                  /\ ENABLED DeleteConversation(id)
            /\ ENABLED ListConversations
            /\ \A u \in Tasks \ { t }, m \in ReadTexts, id \in NamedIds :
                  task[u].pc = "idle" => ENABLED Receive(u, m, id)

\* C20 witness: the first request is still waiting for its completion call
\* and a second one, on the same conversation, begun after it, has just
\* been answered 200.
C20_Witness ==
    /\ task[1].pc = "awaiting"
    /\ sent = MaxSends
    /\ reply.op = "send"
    /\ reply.task = 2
    /\ reply.status = 200
    /\ reply.conversation_id = task[1].conversation_id

\* C21: an id that is in the store stays in it over every step but the
\* delete_conversation called with that id and answered 200.
C21_LeavesOnlyByDelete ==
    [][ \A k \in DOMAIN conversations :
          k \notin DOMAIN conversations' =>
              /\ reply'.op = "delete"
              /\ reply'.id = k
              /\ reply'.status = 200 ]_vars

\* C21 witness: a delete has just removed one conversation and the other
\* one is still in the store.
C21_Witness ==
    /\ reply.op = "delete"
    /\ reply.status = 200
    /\ reply.id \notin DOMAIN conversations
    /\ Cardinality(DOMAIN conversations) = 1

\* The place of the last user message in a sequence of messages (0: none).
LastUserIndex(log) ==
    IF \E i \in 1..Len(log) : log[i].role = "user"
    THEN CHOOSE i \in 1..Len(log) :
             /\ log[i].role = "user"
             /\ \A j \in (i + 1)..Len(log) : log[j].role # "user"
    ELSE 0

\* C23: right after the user append and its trim a conversation holds at
\* most 20 messages, and at every moment outside that step it holds at
\* most 20 plus the number of assistant messages appended to it since its
\* last user append.
C23_CapPlusRepliesSinceUser ==
    /\ \A t \in Tasks :
          task[t].pc = "assemble" =>
              Len(heap[task[t].conversation].messages) <= MaxStored
    /\ \A a \in DOMAIN heap :
          (\A t \in Tasks : ~(task[t].pc = "trim" /\ task[t].conversation = a)) =>
              Len(heap[a].messages) <=
                  MaxStored + (Len(heap[a].log) - LastUserIndex(heap[a].log))

\* C23 witness: a conversation holds 22 messages: two requests appended
\* their replies after the last user append.
C23_Witness ==
    \E k \in DOMAIN conversations :
        /\ Len(Conv(k).messages) = MaxStored + 2
        /\ Len(Conv(k).log) - LastUserIndex(Conv(k).log) = 2

\* C24: the prompt a request hands to the completion call ends with that
\* request's own user message, whatever other requests do meanwhile.
C24_PromptEndsWithOwnMessage ==
    \A t \in Tasks :
        task[t].pc \in { "call", "awaiting" } =>
            LET prompt == task[t].openai_messages
            IN  /\ Len(prompt) >= 2
                /\ prompt[Len(prompt)] =
                      [ role |-> "user", content |-> task[t].message ]
                /\ prompt[Len(prompt)].content = task[t].appended[1].content

\* C24 witness: two requests with different texts wait on one conversation;
\* the prompt of the second holds both user messages and ends with its own.
C24_Witness ==
    \E t, u \in Tasks :
        /\ task[t].pc = "awaiting"
        /\ task[u].pc = "awaiting"
        /\ task[t].conversation = task[u].conversation
        /\ task[t].message # task[u].message
        /\ Len(task[u].openai_messages) = 3
        /\ task[u].openai_messages[2].content = task[t].message
        /\ task[u].openai_messages[3].content = task[u].message

\* C25: the stored history of a conversation is at every moment a
\* contiguous final part of the sequence of all messages appended to it, in
\* the order the appends were made.
C25_StoredIsSuffixOfAppends ==
    \A a \in DOMAIN heap :
        Len(heap[a].messages) <= Len(heap[a].log)
        /\ heap[a].messages = LastN(heap[a].log, Len(heap[a].messages))

\* C25 witness: replies appended out of order have been kept and the
\* oldest message evicted: the history is the last 20 of 21 appends and
\* has two assistant messages side by side.
C25_Witness ==
    \E k \in DOMAIN conversations :
        LET ms == Conv(k).messages
        IN  /\ Len(Conv(k).log) = MaxStored + 1
            /\ ms = SubSeq(Conv(k).log, 2, MaxStored + 1)
            /\ \E i \in 1..(Len(ms) - 1) :
                  ms[i].role = "assistant" /\ ms[i + 1].role = "assistant"

\* The dict a request holds is no longer in the store.
Orphaned(t) ==
    /\ task[t].conversation # Null
    /\ \A k \in DOMAIN conversations : conversations[k] # task[t].conversation

\* C26: when the conversation of a request was deleted while the request
\* waited, the rest of the request leaves the store as it is: the reply is
\* appended to the dict the request holds, which is in the store under no
\* id, and the request is answered 200 with the id of the deleted
\* conversation.
C26_DeletedStaysDeleted ==
    [][ \A t \in Tasks :
          (Orphaned(t) /\ task'[t] # task[t]) =>
              /\ StoreUnchanged
              /\ task[t].pc = "append_assistant" =>
                    LET ms == heap'[task[t].conversation].messages
                    IN  /\ ms[Len(ms)].content = task[t].response_text
                        /\ \A k \in DOMAIN conversations' :
                              conversations'[k] # task[t].conversation
              /\ task[t].pc = "respond" =>
                    /\ reply'.op = "send"
                    /\ reply'.status = 200
                    /\ reply'.conversation_id = task[t].conversation_id
                    /\ reply'.response = task[t].response_text ]_vars

\* C26 witness: a request has just been answered 200 with the id of a
\* conversation that is not in the store.
C26_Witness ==
    /\ reply.op = "send"
    /\ reply.status = 200
    /\ reply.conversation_id \notin DOMAIN conversations

\* C27: when the completion call of a request that named no conversation
\* fails, the answer is a 500 that carries no conversation id, and the
\* store stays as it is: the conversation the request created is still
\* there with the request's user message, its only message if no other
\* request wrote to it.
C27_FailedAnonymousKeepsRecord ==
    [][ \A t \in Tasks :
          ( /\ task[t].pc = "awaiting"
            /\ task'[t].pc = "idle"
            /\ ~IdGiven(task[t].request_id) ) =>
              /\ reply'.status = 500
              /\ DOMAIN reply' = { "op", "task", "status", "message" }
              /\ StoreUnchanged
              /\ ~Orphaned(t) =>
                    LET conv == heap'[conversations'[task[t].conversation_id]]
                    IN  /\ \E i \in 1..Len(conv.messages) :
                              conv.messages[i] = task[t].appended[1]
                        /\ Len(conv.log) = 1 =>
                              /\ Len(conv.messages) = 1
                              /\ conv.messages[1].role = "user"
                              /\ conv.messages[1].content = task[t].message ]_vars

\* C27 witness: the only request ever made named no conversation and has
\* failed; a listing counts the conversation it created, with its one
\* message, under the generated id.
C27_Witness ==
    /\ reply.op = "list"
    /\ reply.total_count = 1
    /\ sent = 1
    /\ \A t \in Tasks : task[t].pc = "idle"
    /\ \E e \in reply.conversations :
          /\ e.conversation_id \in UUIDs
          /\ e.message_count = 1

\* C28: whenever another request can run (no request is in the middle of a
\* step), every conversation in the store holds at least one message, and
\* a listing reports no conversation with message count 0.
C28_NoEmptyRecordVisible ==
    /\ LoopIdle =>
          \A k \in DOMAIN conversations : Len(Conv(k).messages) >= 1
    /\ reply.op = "list" =>
          \A e \in reply.conversations :
              /\ e.message_count >= 1
              /\ e.last_message # << >>

\* C28 witness: a listing made while a request waits for its completion
\* call shows the conversation that request has just created, with one
\* message.
C28_Witness ==
    /\ reply.op = "list"
    /\ \E t \in Tasks, e \in reply.conversations :
          /\ task[t].pc = "awaiting"
          /\ e.conversation_id = task[t].conversation_id
          /\ e.message_count = 1
          /\ Len(heap[task[t].conversation].log) = 1

\* In a run of requests one at a time on one conversation: the requests
\* that have ended, and whether each of them appended both its messages
\* (none of the completion calls made so far has failed).
Ended == sent - (IF task[1].pc \in { "idle", "validate" } THEN 0 ELSE 1)
AllSucceeded(conv) == Len(conv.log) = 2 * Ended + Len(task[1].appended)

C22_WritesOnlyNewPath ==
    [][ \A t \in Uploaders :
          ( /\ uploads[t].pc = "reading"
            /\ uploads'[t].pc = "idle"
            /\ response'.status = 200 ) =>
              uploads[t].file_path \notin DOMAIN files ]_vars

\* The admitted calls whose time lies in the span of time_window seconds
\* that starts at from.
AdmittedIn(from) ==
    { i \in 1..Len(limiter.admitted) :
        from <= limiter.admitted[i] /\ limiter.admitted[i] <= from + limiter.time_window }

\* C30: after every call of is_allowed at most max_requests request times
\* are recorded; a call that returns False records none; a call returns
\* True exactly when fewer than max_requests of the calls admitted before
\* it lie within the last time_window seconds; and no span of time_window
\* seconds holds more than max_requests admitted calls.
C30_AdmitsAtMostMaxPerWindow ==
    [][ limiter'.calls > limiter.calls =>
          /\ Len(limiter'.requests) <= limiter.max_requests
          /\ limiter'.result = FALSE =>
                /\ limiter'.admitted = limiter.admitted
                /\ Len(limiter'.requests) <= Len(limiter.requests)
                /\ \A i \in 1..Len(limiter'.requests) :
                      \E j \in 1..Len(limiter.requests) :
                          limiter'.requests[i] = limiter.requests[j]
          /\ limiter'.result =
                (Cardinality(AdmittedIn(now - limiter.time_window)) < limiter.max_requests)
          /\ \A from \in 0..MaxLimiterTime :
                Cardinality({ i \in 1..Len(limiter'.admitted) :
                                /\ from <= limiter'.admitted[i]
                                /\ limiter'.admitted[i] <= from + limiter.time_window })
                    <= limiter.max_requests ]_vars

\* C30 witness: a limiter of two requests per window has admitted a third
\* call, the first one having left the window, and records two times.
C30_Witness ==
    /\ limiter.max_requests = 2
    /\ Len(limiter.admitted) = 3
    /\ limiter.result = TRUE
    /\ Len(limiter.requests) = 2
    /\ now - limiter.admitted[1] > limiter.time_window

====
